---- MODULE Spec2Model ----
(***************************************************************************)
(* Recording playback of the HID prototype (HIDController in               *)
(* src/hid_controller/macos_hid_prototype.cpp): the coordinate mapping,    *)
(* the move/click/drag/type handlers, the keycode translation and the      *)
(* executeRecording loop.  The console output and the blocking sleeps are  *)
(* the observable behaviour; they are kept, in order, in `emitted`.        *)
(***************************************************************************)
EXTENDS Integers, Sequences, FiniteSets, TLC

(***************************************************************************)
(* Bounds of the model.                                                    *)
(***************************************************************************)
\* longest recording drawn from the action alphabet
MaxActions == 2
\* number of executeRecording calls on one controller
MaxPlays == 2

(***************************************************************************)
(* Single-precision values.  A float is [m |-> mantissa, s |-> scale] and  *)
(* denotes m / 2^s, with 2^23 <= m < 2^24 (a normalised 24-bit             *)
(* significand), or m = 0 and s = 149 for 0.0f; s >= 23 as the values are  *)
(* at most 1.0.  Only non-negative values occur: relative coordinates are  *)
(* 0.0 to 1.0.                                                             *)
(***************************************************************************)
RECURSIVE Pow2(_)
Pow2(n) == IF n = 0 THEN 1 ELSE 2 * Pow2(n - 1)

RECURSIVE BitLen(_)
BitLen(n) == IF n = 0 THEN 0 ELSE 1 + BitLen(n \div 2)

Float(m, s) == [m |-> m, s |-> s]

\* float literals of the source and of the recordings played here
F_0 == Float(0, 149)
F_1 == Float(8388608, 23)
F_0_5 == Float(8388608, 24)
F_0_05 == Float(13421773, 28)
F_0_85 == Float(14260634, 24)
F_0_02 == Float(10737418, 29)
\* 197.0f / 390.0f and 3.0f / 844.0f: the floats nearest to 197/390 and
\* 3/844, both just below the quotient
F_197_390 == Float(8474645, 24)
F_3_844 == Float(15266471, 32)
\* 0.25f and 0.75f
F_0_25 == Float(8388608, 25)
F_0_75 == Float(12582912, 24)

\* The product m * w exceeds 32 bits, so it is kept as Hi * 4096 + Lo.
ProdHi(m, w) == (m \div 4096) * w + (((m % 4096) * w) \div 4096)
ProdLo(m, w) == ((m % 4096) * w) % 4096

\* floor(a / 2^k) for 0 <= a < 2^30
ShiftRight(a, k) == IF k >= 30 THEN 0 ELSE a \div Pow2(k)

\* The significand of the single-precision product f * w (w an int
\* converted to float, exact for w < 2^24): the exact product rounded to
\* 24 significant bits, ties to even.  The result denotes q * 2^t / 2^s.
FloatMulInt(f, w) ==
    LET hi == ProdHi(f.m, w)
        lo == ProdLo(f.m, w)
        t == IF BitLen(hi) > 12 THEN BitLen(hi) - 12 ELSE 0
        q == hi * Pow2(12 - t) + (lo \div Pow2(t))
        rem == lo % Pow2(t)
        half == IF t = 0 THEN 1 ELSE Pow2(t - 1)
        up == t > 0 /\ (rem > half \/ (rem = half /\ q % 2 = 1))
    IN  [q |-> IF up THEN q + 1 ELSE q, t |-> t, s |-> f.s]

\* (int) of a non-negative single-precision value q * 2^t / 2^s, s >= t
FloatToInt(p) == ShiftRight(p.q, p.s - p.t)

\* floor of the exact real product f * w
ExactFloor(f, w) == ShiftRight(ProdHi(f.m, w), f.s - 12)

\* the exact product f * w is more than 2^-10 + 2^-(s - 12) below the next
\* integer (so whenever it is more than 2^-9 below it, as s >= 23)
FarBelowNextInt(f, w) ==
    LET k == f.s - 12
        hi == ProdHi(f.m, w)
    IN  \/ k >= 30
        \/ (ExactFloor(f, w) + 1) * Pow2(k) - hi > Pow2(k) \div 1024 + 1

(***************************************************************************)
(* HIDController state                                                     *)
(***************************************************************************)
screenWidth == 390
screenHeight == 844

VARIABLES
    currentX, currentY,   \* current cursor position
    emitted,              \* HID reports and sleeps, in the order made
    legs,                 \* one entry per completed moveToPosition
    pc,                   \* "idle", or "loop" inside executeRecording
    actions,              \* the recording handed to executeRecording
    idx,                  \* loop position: index of the next action
    marks,                \* Len(emitted) when each action was dispatched
    plays,                \* executeRecording calls so far
    startX, startY,       \* cursor when the current call began
    sinkFault,            \* first entry whose write failed, if any
    mapIn, mapOut,        \* relativeToAbsolute: arguments and out-params
    keyIn, keyOut         \* asciiToHIDKeycode: arguments and results

vars == <<currentX, currentY, emitted, legs, pc, actions, idx, marks, plays,
          startX, startY, sinkFault, mapIn, mapOut, keyIn, keyOut>>

engineVars == <<currentX, currentY, emitted, legs, pc, actions, idx, marks,
                plays, startX, startY, sinkFault>>

\* Convert relative coordinates to absolute
\* faulty variant: the product rounded to the nearest integer
roundHalfUp_relativeToAbsolute(relX, relY) ==
    LET px == FloatMulInt(relX, 2 * screenWidth)
        py == FloatMulInt(relY, 2 * screenHeight)
    IN  [absX |-> (FloatToInt(px) + 1) \div 2, absY |-> (FloatToInt(py) + 1) \div 2]

\* faulty variant: width and height exchanged
transposed_relativeToAbsolute(relX, relY) ==
    [absX |-> FloatToInt(FloatMulInt(relX, screenHeight)),
     absY |-> FloatToInt(FloatMulInt(relY, screenWidth))]

relativeToAbsolute(relX, relY) ==
    [absX |-> FloatToInt(FloatMulInt(relX, screenWidth)),
     absY |-> FloatToInt(FloatMulInt(relY, screenHeight))]


(***************************************************************************)
(* RecordedAction                                                          *)
(***************************************************************************)
MOVE == "MOVE"
CLICK == "CLICK"
DRAG == "DRAG"
WAIT == "WAIT"
TYPE == "TYPE"

\* RecordedAction(Type t, float x = 0, float y = 0)
RecordedAction(t, x, y) ==
    [type |-> t, relativeX |-> x, relativeY |-> y,
     toRelativeX |-> F_0, toRelativeY |-> F_0, waitMs |-> 0, text |-> <<>>]

(***************************************************************************)
(* What the controller emits.  One record shape for every entry:           *)
(*   kind "move"    a mouse report with relative deltas dx, dy             *)
(*   kind "button"  a mouse report with the left button pressed/released   *)
(*   kind "keydown" a keyboard report holding keycode                      *)
(*   kind "keyup"   the keyboard report after report[2] = 0x00; keycode    *)
(*                  is the key released                                    *)
(*   kind "sleep"   std::this_thread::sleep_for(ms)                        *)
(* report is the byte array built for the event (empty for a sleep).       *)
(***************************************************************************)
Entry(kind, dx, dy, pressed, keycode, ms, report) ==
    [kind |-> kind, dx |-> dx, dy |-> dy, pressed |-> pressed,
     keycode |-> keycode, ms |-> ms, report |-> report]

sleep_for(out, ms) ==
    Append(out, Entry("sleep", 0, 0, FALSE, 0, ms, <<>>))

\* Send HID report for mouse movement
sendMouseMove(out, dx, dy) ==
    Append(out, Entry("move", dx, dy, FALSE, 0, 0,
                      <<0, dx % 256, dy % 256>>))

\* Send HID report for mouse button
sendMouseButton(out, pressed) ==
    Append(out, Entry("button", 0, 0, pressed, 0, 0,
                      <<IF pressed THEN 1 ELSE 0, 0, 0>>))

\* char values are ASCII codes
\* faulty variant: the lower-case branch missing
upperOnly_asciiToHIDKeycode(c) ==
    IF c >= 65 /\ c <= 90 THEN 4 + (c - 65)
    ELSE IF c >= 49 /\ c <= 57 THEN 30 + (c - 49)
    ELSE IF c = 48 THEN 39
    ELSE IF c = 32 THEN 44
    ELSE IF c = 10 THEN 40
    ELSE 0

asciiToHIDKeycode(c) ==
    IF c >= 97 /\ c <= 122 THEN 4 + (c - 97)
    ELSE IF c >= 65 /\ c <= 90 THEN 4 + (c - 65)
    ELSE IF c >= 49 /\ c <= 57 THEN 30 + (c - 49)
    ELSE IF c = 48 THEN 39
    ELSE IF c = 32 THEN 44
    ELSE IF c = 10 THEN 40
    ELSE 0

\* Send HID report for keyboard: the press report, then the release one
\* faulty variant: no release report
noRelease_sendKeyPress(out, key) ==
    LET keycode == asciiToHIDKeycode(key)
    IN  Append(out, Entry("keydown", 0, 0, FALSE, keycode, 0,
                          <<0, 0, keycode, 0, 0, 0, 0, 0>>))

sendKeyPress(out, key) ==
    LET keycode == asciiToHIDKeycode(key)
        press == Append(out, Entry("keydown", 0, 0, FALSE, keycode, 0,
                                   <<0, 0, keycode, 0, 0, 0, 0, 0>>))
    IN  Append(press, Entry("keyup", 0, 0, FALSE, keycode, 0,
                            <<0, 0, 0, 0, 0, 0, 0, 0>>))

\* int / int of C++: the quotient truncated toward zero
IntDiv(a, b) == IF a >= 0 THEN a \div b ELSE -((-a) \div b)

steps == 10

\* faulty variant: the whole delta sent in every sub-step
RECURSIVE undivided_MoveLoop(_, _, _, _)
undivided_MoveLoop(out, i, dx, dy) ==
    IF i < steps
    THEN undivided_MoveLoop(sleep_for(sendMouseMove(out, dx, dy), 10), i + 1, dx, dy)
    ELSE out

\* for (int i = 0; i < steps; i++) { sendMouseMove(dx / steps, dy / steps); sleep 10 ms }
RECURSIVE MoveLoop(_, _, _, _)
MoveLoop(out, i, dx, dy) ==
    IF i < steps
    THEN MoveLoop(sleep_for(sendMouseMove(out, IntDiv(dx, steps), IntDiv(dy, steps)), 10),
                  i + 1, dx, dy)
    ELSE out

\* The controller as the handlers see it: e.currentX, e.currentY, e.out
\* (what was emitted), e.legs (the moveToPosition calls completed).
Leg(e, targetX, targetY, x, y) ==
    [fromX |-> e.currentX, fromY |-> e.currentY,
     targetX |-> targetX, targetY |-> targetY,
     x |-> x, y |-> y, first |-> Len(e.out) + 1]

\* Move mouse to absolute position
\* faulty variant: the cursor is advanced by the sub-steps sent
drift_moveToPosition(e, relX, relY) ==
    LET target == relativeToAbsolute(relX, relY)
        dx == target.absX - e.currentX
        dy == target.absY - e.currentY
        x == e.currentX + steps * IntDiv(dx, steps)
        y == e.currentY + steps * IntDiv(dy, steps)
    IN  [currentX |-> x, currentY |-> y,
         out |-> MoveLoop(e.out, 0, dx, dy),
         legs |-> Append(e.legs, Leg(e, target.absX, target.absY, x, y))]

\* faulty variant: the whole delta in one report
oneJump_moveToPosition(e, relX, relY) ==
    LET target == relativeToAbsolute(relX, relY)
        dx == target.absX - e.currentX
        dy == target.absY - e.currentY
    IN  [currentX |-> target.absX, currentY |-> target.absY,
         out |-> sleep_for(sendMouseMove(e.out, dx, dy), 10),
         legs |-> Append(e.legs, Leg(e, target.absX, target.absY,
                                     target.absX, target.absY))]

moveToPosition(e, relX, relY) ==
    LET target == relativeToAbsolute(relX, relY)
        dx == target.absX - e.currentX
        dy == target.absY - e.currentY
    IN  [currentX |-> target.absX, currentY |-> target.absY,
         out |-> MoveLoop(e.out, 0, dx, dy),
         legs |-> Append(e.legs, Leg(e, target.absX, target.absY,
                                     target.absX, target.absY))]

\* Send mouse click
\* faulty variant: the button is never released
stillHeld_click(e) ==
    [e EXCEPT !.out = sleep_for(sendMouseButton(e.out, TRUE), 50)]

\* faulty variant: release and press exchanged
releaseFirst_click(e) ==
    [e EXCEPT !.out = sendMouseButton(sleep_for(sendMouseButton(e.out, FALSE), 50), TRUE)]

click(e) ==
    [e EXCEPT !.out = sendMouseButton(sleep_for(sendMouseButton(e.out, TRUE), 50), FALSE)]

\* Perform drag
\* faulty variant: no press and release when nothing is to be dragged
skipWhenSame_drag(e, fromX, fromY, toX, toY) ==
    LET atOrigin == moveToPosition(e, fromX, fromY)
        settled == [atOrigin EXCEPT !.out = sleep_for(atOrigin.out, 100)]
        held == [settled EXCEPT !.out = sleep_for(sendMouseButton(settled.out, TRUE), 100)]
        atDest == moveToPosition(held, toX, toY)
        moved == [atDest EXCEPT !.out = sleep_for(atDest.out, 100)]
    IN  IF relativeToAbsolute(fromX, fromY) = relativeToAbsolute(toX, toY)
        THEN settled
        ELSE [moved EXCEPT !.out = sendMouseButton(moved.out, FALSE)]

drag(e, fromX, fromY, toX, toY) ==
    LET atOrigin == moveToPosition(e, fromX, fromY)
        settled == [atOrigin EXCEPT !.out = sleep_for(atOrigin.out, 100)]
        held == [settled EXCEPT !.out = sleep_for(sendMouseButton(settled.out, TRUE), 100)]
        atDest == moveToPosition(held, toX, toY)
        moved == [atDest EXCEPT !.out = sleep_for(atDest.out, 100)]
    IN  [moved EXCEPT !.out = sendMouseButton(moved.out, FALSE)]

\* faulty variant: typing stops at a character without a keycode
RECURSIVE stopAtUnmapped_TypeLoop(_, _, _)
stopAtUnmapped_TypeLoop(out, text, i) ==
    IF i <= Len(text) /\ asciiToHIDKeycode(text[i]) # 0
    THEN stopAtUnmapped_TypeLoop(sleep_for(sendKeyPress(out, text[i]), 50), text, i + 1)
    ELSE out

\* Type text: for (char c : text) { sendKeyPress(c); sleep 50 ms }
RECURSIVE TypeLoop(_, _, _)
TypeLoop(out, text, i) ==
    IF i <= Len(text)
    THEN TypeLoop(sleep_for(sendKeyPress(out, text[i]), 50), text, i + 1)
    ELSE out

typeText(e, text) == [e EXCEPT !.out = TypeLoop(e.out, text, 1)]


(***************************************************************************)
(* Recordings played                                                       *)
(***************************************************************************)
\* Test with actual recording from macOS app
getHomeButtonRecording ==
    LET hover == RecordedAction(MOVE, F_0_5, F_0_05)
        wait == RecordedAction(WAIT, F_0, F_0)
        homeClick == RecordedAction(CLICK, F_0_85, F_0_02)
    IN  <<hover, [wait EXCEPT !.waitMs = 500], homeClick,
          [wait EXCEPT !.waitMs = 1000]>>

\* the positions, drags, texts and waits the generated recordings use
P_Hover == <<F_0_5, F_0_05>>
P_Home == <<F_0_85, F_0_02>>
P_Edge == <<F_197_390, F_3_844>>
MovePoints == {P_Hover, P_Home, P_Edge}
ClickPoints == {P_Home, P_Edge}
Drags == {<<P_Hover, P_Home>>, <<P_Home, P_Hover>>, <<P_Home, P_Home>>}
\* "aB", "z?0"
Texts == {<<97, 66>>, <<122, 63, 48>>}
Waits == {500}

Alphabet ==
    {RecordedAction(MOVE, p[1], p[2]) : p \in MovePoints}
    \cup {RecordedAction(CLICK, p[1], p[2]) : p \in ClickPoints}
    \cup {[RecordedAction(DRAG, d[1][1], d[1][2]) EXCEPT
              !.toRelativeX = d[2][1], !.toRelativeY = d[2][2]] : d \in Drags}
    \cup {[RecordedAction(WAIT, F_0, F_0) EXCEPT !.waitMs = w] : w \in Waits}
    \cup {[RecordedAction(TYPE, F_0, F_0) EXCEPT !.text = s] : s \in Texts}

Recordings ==
    UNION {[1..n -> Alphabet] : n \in 0..MaxActions} \cup {getHomeButtonRecording}

(***************************************************************************)
(* executeRecording                                                        *)
(***************************************************************************)
NoFault == [at |-> 0, action |-> 0]

Controller ==
    [currentX |-> currentX, currentY |-> currentY, out |-> emitted, legs |-> legs]

\* std::cout << "=== Executing Recording ===": no effect on the controller
\* faulty variant: the cursor is taken to be at the origin on entry
rehome_EnterRecording(e) == [e EXCEPT !.currentX = 0, !.currentY = 0]

EnterRecording(e) == e

\* the call executeRecording(rec), up to the loop
StartPlayback(rec) ==
    /\ pc = "idle"
    /\ plays < MaxPlays
    /\ pc' = "loop"
    /\ plays' = plays + 1
    /\ actions' = rec
    /\ idx' = 1
    /\ startX' = currentX
    /\ startY' = currentY
    /\ currentX' = EnterRecording(Controller).currentX
    /\ currentY' = EnterRecording(Controller).currentY
    /\ emitted' = <<>>
    /\ legs' = <<>>
    /\ marks' = <<>>
    /\ sinkFault' = NoFault
    /\ UNCHANGED <<mapIn, mapOut, keyIn, keyOut>>

\* faulty variant: case MOVE without its break falls through into case CLICK
missingBreak_MoveCase(e, action) ==
    LET first == moveToPosition(e, action.relativeX, action.relativeY)
        moved == moveToPosition(first, action.relativeX, action.relativeY)
    IN  click([moved EXCEPT !.out = sleep_for(moved.out, 100)])

\* the switch cases
MoveCase(e, action) == moveToPosition(e, action.relativeX, action.relativeY)

\* faulty variant: the click follows the move with no delay
noSettle_ClickCase(e, action) ==
    click(moveToPosition(e, action.relativeX, action.relativeY))

ClickCase(e, action) ==
    LET moved == moveToPosition(e, action.relativeX, action.relativeY)
    IN  click([moved EXCEPT !.out = sleep_for(moved.out, 100)])

DragCase(e, action) ==
    drag(e, action.relativeX, action.relativeY, action.toRelativeX, action.toRelativeY)

\* faulty variant: the duration taken as seconds
seconds_WaitCase(e, action) == [e EXCEPT !.out = sleep_for(e.out, 1000 * action.waitMs)]

WaitCase(e, action) == [e EXCEPT !.out = sleep_for(e.out, action.waitMs)]

TypeCase(e, action) == typeText(e, action.text)

\* Small delay between actions
\* faulty variant: no delay
none_InterActionDelay(out) == out

InterActionDelay(out) == sleep_for(out, 100)

\* One iteration of the loop over the actions: the case taken, then the
\* small delay between actions.  Nothing checks whether a write of a report
\* succeeded (the send functions return void), so a failed write changes
\* nothing of the run; with faulty, the first failed write is remembered.
Iterate(type, after, faulty) ==
    /\ pc = "loop"
    /\ idx <= Len(actions)
    /\ actions[idx].type = type
    /\ currentX' = after.currentX
    /\ currentY' = after.currentY
    /\ legs' = after.legs
    /\ emitted' = InterActionDelay(after.out)
    /\ marks' = Append(marks, Len(emitted))
    /\ idx' = idx + 1
    /\ \E f \in IF faulty /\ sinkFault = NoFault
                THEN {0} \cup {k \in (Len(emitted) + 1)..Len(after.out) :
                                 after.out[k].kind # "sleep"}
                ELSE {0} :
          sinkFault' = IF f = 0 THEN sinkFault ELSE [at |-> f, action |-> idx]
    /\ UNCHANGED <<pc, actions, plays, startX, startY, mapIn, mapOut, keyIn, keyOut>>

ExecMove(faulty) == Iterate(MOVE, MoveCase(Controller, actions[idx]), faulty)
ExecClick(faulty) == Iterate(CLICK, ClickCase(Controller, actions[idx]), faulty)
ExecDrag(faulty) == Iterate(DRAG, DragCase(Controller, actions[idx]), faulty)
ExecWait(faulty) == Iterate(WAIT, WaitCase(Controller, actions[idx]), faulty)
ExecType(faulty) == Iterate(TYPE, TypeCase(Controller, actions[idx]), faulty)

\* faulty variant: a finished controller plays no further recording
terminal_FinishPlayback ==
    /\ pc = "loop"
    /\ idx > Len(actions)
    /\ pc' = "done"
    /\ UNCHANGED <<currentX, currentY, emitted, legs, actions, idx, marks, plays,
                   startX, startY, sinkFault, mapIn, mapOut, keyIn, keyOut>>

\* the loop is over: "=== Recording Complete ===" and return
FinishPlayback ==
    /\ pc = "loop"
    /\ idx > Len(actions)
    /\ pc' = "idle"
    /\ UNCHANGED <<currentX, currentY, emitted, legs, actions, idx, marks, plays,
                   startX, startY, sinkFault, mapIn, mapOut, keyIn, keyOut>>

NoMap == [absX |-> -1, absY |-> -1]

IdleAt(x, y) ==
    /\ currentX = x
    /\ currentY = y
    /\ emitted = <<>>
    /\ legs = <<>>
    /\ pc = "idle"
    /\ actions = <<>>
    /\ idx = 1
    /\ marks = <<>>
    /\ plays = 0
    /\ startX = x
    /\ startY = y
    /\ sinkFault = NoFault

\* int currentX = 0; int currentY = 0;
InitEngine == IdleAt(0, 0)

Init ==
    /\ InitEngine
    /\ mapIn = <<F_0, F_0>>
    /\ mapOut = NoMap
    /\ keyIn = <<>>
    /\ keyOut = <<>>

Next ==
    \/ \E rec \in Recordings : StartPlayback(rec)
    \/ ExecMove(FALSE)
    \/ ExecClick(FALSE)
    \/ ExecDrag(FALSE)
    \/ ExecWait(FALSE)
    \/ ExecType(FALSE)
    \/ FinishPlayback

Spec == Init /\ [][Next]_vars

\* one iteration of the loop, whatever the case taken
Dispatch ==
    \/ ExecMove(FALSE)
    \/ ExecClick(FALSE)
    \/ ExecDrag(FALSE)
    \/ ExecWait(FALSE)
    \/ ExecType(FALSE)

\* an iteration is possible exactly when the loop has an action left
DispatchEnabled == pc = "loop" /\ idx <= Len(actions)

\* the recordings of up to MaxActions actions over one action of each kind
LiveAlphabet ==
    {RecordedAction(MOVE, P_Edge[1], P_Edge[2]),
     RecordedAction(CLICK, P_Home[1], P_Home[2]),
     [RecordedAction(DRAG, P_Hover[1], P_Hover[2]) EXCEPT
         !.toRelativeX = P_Home[1], !.toRelativeY = P_Home[2]],
     [RecordedAction(WAIT, F_0, F_0) EXCEPT !.waitMs = 500],
     [RecordedAction(TYPE, F_0, F_0) EXCEPT !.text = <<97, 66>>]}

LiveRecordings == UNION {[1..n -> LiveAlphabet] : n \in 0..MaxActions}

NextLive ==
    \/ \E rec \in LiveRecordings : StartPlayback(rec)
    \/ Dispatch
    \/ FinishPlayback

\* The thread that called executeRecording runs the loop to its end: every
\* sleep is finite and nothing else blocks, so an iteration that is possible
\* is eventually taken, and so is the return after the last one.  The
\* fairness of Dispatch is weak fairness written out,
\* <>[]ENABLED <<Dispatch>>_vars => []<><<Dispatch>>_vars, with
\* DispatchEnabled for the ENABLED.
SpecLive ==
    /\ Init /\ [][NextLive]_vars
    /\ WF_vars(FinishPlayback)
    /\ (<>[]DispatchEnabled => []<><<Dispatch>>_vars)

\* The same playback with writes of reports that may fail.
NextFault ==
    \/ \E rec \in Recordings : StartPlayback(rec)
    \/ ExecMove(TRUE)
    \/ ExecClick(TRUE)
    \/ ExecDrag(TRUE)
    \/ ExecWait(TRUE)
    \/ ExecType(TRUE)
    \/ FinishPlayback

SpecFault == Init /\ [][NextFault]_vars


(***************************************************************************)
(* relativeToAbsolute on its own: the arguments are drawn from Rels, the   *)
(* controller is one that has already moved (or not).                      *)
(***************************************************************************)
Rels == {F_0, F_1, F_0_5, F_0_05, F_0_85, F_0_02, F_197_390, F_3_844, F_0_25, F_0_75}

InitMap ==
    /\ \E at \in {<<0, 0>>, <<195, 42>>} : IdleAt(at[1], at[2])
    /\ mapIn \in Rels \X Rels
    /\ mapOut = NoMap
    /\ keyIn = <<>>
    /\ keyOut = <<>>

\* relativeToAbsolute(relX, relY, absX, absY): writes its two out-params only
MapCall ==
    /\ mapOut = NoMap
    /\ mapOut' = relativeToAbsolute(mapIn[1], mapIn[2])
    /\ UNCHANGED <<engineVars, mapIn, keyIn, keyOut>>

NextMap == MapCall

SpecMap == InitMap /\ [][NextMap]_vars

(***************************************************************************)
(* asciiToHIDKeycode on its own: two characters are translated, the second *)
(* being the first, its other case or its successor.                       *)
(***************************************************************************)
Chars == 0..127

InitKey ==
    /\ InitEngine
    /\ mapIn = <<F_0, F_0>>
    /\ mapOut = NoMap
    /\ keyIn \in {<<c, d>> : c \in Chars, d \in Chars} 
    /\ keyIn[2] - keyIn[1] \in {-32, 0, 1, 32}
    /\ keyOut = <<>>

KeyCall ==
    /\ keyOut = <<>>
    /\ keyOut' = <<asciiToHIDKeycode(keyIn[1]), asciiToHIDKeycode(keyIn[2])>>
    /\ UNCHANGED <<engineVars, mapIn, mapOut, keyIn>>

NextKey == KeyCall

SpecKey == InitKey /\ [][NextKey]_vars


(***************************************************************************)
(* Single gestures between any two positions: a recording of one Move to   *)
(* any position of Rels x Rels, or of one Click or Drag between corners of *)
(* the screen, played from the cursor the call before left.                *)
(***************************************************************************)
Corners == {<<F_0, F_0>>, <<F_0, F_1>>, <<F_1, F_0>>, <<F_1, F_1>>}

LegRecordings ==
    {<<RecordedAction(MOVE, p[1], p[2])>> : p \in Rels \X Rels}
    \cup {<<RecordedAction(CLICK, p[1], p[2])>> : p \in Corners}
    \cup {<<[RecordedAction(DRAG, p[1], p[2]) EXCEPT
               !.toRelativeX = q[1], !.toRelativeY = q[2]]>> : p \in Corners, q \in Corners}

NextLeg ==
    \/ \E rec \in LegRecordings : StartPlayback(rec)
    \/ ExecMove(FALSE)
    \/ ExecClick(FALSE)
    \/ ExecDrag(FALSE)
    \/ FinishPlayback

SpecLeg == Init /\ [][NextLeg]_vars


(***************************************************************************)
(* Reading the emitted entries                                             *)
(***************************************************************************)
\* the actions dispatched so far in this call
Dispatched == 1..Len(marks)

SliceEnd(i) == IF i < Len(marks) THEN marks[i + 1] ELSE Len(emitted)

\* what action i emitted, its trailing inter-action delay included
ActionEntries(i) == SubSeq(emitted, marks[i] + 1, SliceEnd(i))

IsDevice(en) == en.kind # "sleep"

\* the device events (HID reports) among the entries, the sleeps left out
DeviceEvents(seq) == SelectSeq(seq, IsDevice)

\* the moveToPosition calls completed by action i
LegsOf(i) == SelectSeq(legs, LAMBDA l : l.first > marks[i] /\ l.first <= SliceEnd(i))

\* en is a sub-step of leg l: a relative move by (dx / 10, dy / 10)
IsMoveOf(en, l) ==
    /\ en.kind = "move"
    /\ en.dx = IntDiv(l.targetX - l.fromX, 10)
    /\ en.dy = IntDiv(l.targetY - l.fromY, 10)

IsButton(en, pressed) == en.kind = "button" /\ en.pressed = pressed

\* leg l ended with the cursor on the mapper's target for (relX, relY)
LegReached(l, relX, relY) ==
    /\ l.targetX = relativeToAbsolute(relX, relY).absX
    /\ l.targetY = relativeToAbsolute(relX, relY).absY
    /\ l.x = l.targetX
    /\ l.y = l.targetY

\* the integer division of the sub-steps lost part of the leg's delta
TruncationLost(l) ==
    \/ 10 * IntDiv(l.targetX - l.fromX, 10) # l.targetX - l.fromX
    \/ 10 * IntDiv(l.targetY - l.fromY, 10) # l.targetY - l.fromY

(***************************************************************************)
(* Properties                                                              *)
(***************************************************************************)

\* C1: every completed Move, Click or Drag leg leaves the cursor exactly on
\* the absolute target the coordinate mapping gives for that leg, whatever
\* the cursor was before and whatever dx / steps truncated; the cursor of
\* the controller is the one the last leg left.
C1_CursorEqualsTarget ==
    /\ \A i \in Dispatched :
        LET a == actions[i]
            ls == LegsOf(i)
        IN  /\ a.type \in {MOVE, CLICK} =>
                Len(ls) = 1 /\ LegReached(ls[1], a.relativeX, a.relativeY)
            /\ a.type = DRAG =>
                /\ Len(ls) = 2
                /\ LegReached(ls[1], a.relativeX, a.relativeY)
                /\ LegReached(ls[2], a.toRelativeX, a.toRelativeY)
            /\ a.type \in {WAIT, TYPE} => Len(ls) = 0
    /\ legs # <<>> =>
        currentX = legs[Len(legs)].targetX /\ currentY = legs[Len(legs)].targetY

\* a leg that lost part of its delta to truncation, followed by a second
\* leg to the same target
C1_Witness ==
    \E k \in 1..(Len(legs) - 1) :
        /\ TruncationLost(legs[k])
        /\ legs[k + 1].targetX = legs[k].targetX
        /\ legs[k + 1].targetY = legs[k].targetY
        /\ currentX = legs[Len(legs)].targetX

\* C2: the device events of a Click are exactly the ten sub-steps of one
\* move toward the click position, then one button-down, then one
\* button-up, in that order and with no other event among them.
C2_ClickSequence ==
    \A i \in Dispatched :
        actions[i].type = CLICK =>
            LET ev == DeviceEvents(ActionEntries(i))
                ls == LegsOf(i)
            IN  /\ Len(ls) = 1
                /\ Len(ev) = 12
                /\ \A k \in 1..10 : IsMoveOf(ev[k], ls[1])
                /\ IsButton(ev[11], TRUE)
                /\ IsButton(ev[12], FALSE)

C2_Witness ==
    \E i \in Dispatched :
        /\ actions[i].type = CLICK
        /\ TruncationLost(LegsOf(i)[1])
        /\ IsButton(DeviceEvents(ActionEntries(i))[12], FALSE)

\* C3: the device events of a Drag are exactly the sub-steps of the move to
\* the origin, one button-down, the sub-steps of the move to the
\* destination, one button-up; one button-down and one button-up also when
\* the destination is the origin.
C3_DragSequence ==
    \A i \in Dispatched :
        actions[i].type = DRAG =>
            LET ev == DeviceEvents(ActionEntries(i))
                ls == LegsOf(i)
            IN  /\ Len(ls) = 2
                /\ Len(ev) = 22
                /\ \A k \in 1..10 : IsMoveOf(ev[k], ls[1])
                /\ IsButton(ev[11], TRUE)
                /\ \A k \in 12..21 : IsMoveOf(ev[k], ls[2])
                /\ IsButton(ev[22], FALSE)
                /\ Cardinality({k \in 1..Len(ev) : IsButton(ev[k], TRUE)}) = 1
                /\ Cardinality({k \in 1..Len(ev) : IsButton(ev[k], FALSE)}) = 1

\* a Drag whose destination is its origin has been played
C3_Witness ==
    \E i \in Dispatched :
        /\ actions[i].type = DRAG
        /\ actions[i].toRelativeX = actions[i].relativeX
        /\ actions[i].toRelativeY = actions[i].relativeY
        /\ Len(DeviceEvents(ActionEntries(i))) = 22

\* C4: once the write of a report has failed the playback is aborted:
\* nothing is emitted after the failed report and no later action is
\* dispatched; when the failed report is the button-down of a Drag, the
\* cursor is at the Drag's origin.
C4_AbortOnTransportFailure ==
    sinkFault # NoFault =>
        /\ Len(emitted) = sinkFault.at
        /\ Len(marks) = sinkFault.action
        /\ (actions[sinkFault.action].type = DRAG /\ emitted[sinkFault.at].kind = "button"
            /\ emitted[sinkFault.at].pressed) =>
                LET origin == relativeToAbsolute(actions[sinkFault.action].relativeX,
                                                 actions[sinkFault.action].relativeY)
                IN  currentX = origin.absX /\ currentY = origin.absY

\* C5: playing an empty recording emits nothing and leaves the cursor where
\* it was before the call.
C5_EmptyRecording ==
    (plays > 0 /\ actions = <<>>) =>
        /\ emitted = <<>>
        /\ currentX = startX
        /\ currentY = startY

\* an empty recording was played to its end by a controller whose cursor
\* had been moved by an earlier recording
C5_Witness ==
    /\ pc = "idle"
    /\ plays = 2
    /\ actions = <<>>
    /\ startX # 0
    /\ startY # 0


\* the entries are sleeps only, one of them of ms milliseconds
OnlyWaits(seq, ms) ==
    /\ DeviceEvents(seq) = <<>>
    /\ \E k \in 1..Len(seq) : seq[k].ms = ms

\* C6: the home button recording [Move(0.5,0.05), Wait(500),
\* Click(0.85,0.02), Wait(1000)] played to its end by a fresh controller
\* (cursor (0,0), 390x844) moves the cursor to (195,42), waits 500 ms, moves
\* to (331,16), emits one button-down then one button-up, waits 1000 ms,
\* and ends with the cursor at (331,16).
C6_HomeButtonScenario ==
    (pc = "idle" /\ plays = 1 /\ actions = getHomeButtonRecording) =>
        /\ Len(marks) = 4
        /\ Len(legs) = 2
        /\ LET hover == DeviceEvents(ActionEntries(1))
               homeClick == DeviceEvents(ActionEntries(3))
           IN  /\ <<legs[1].fromX, legs[1].fromY>> = <<0, 0>>
               /\ <<legs[1].x, legs[1].y>> = <<195, 42>>
               /\ Len(hover) = 10
               /\ \A k \in 1..10 : IsMoveOf(hover[k], legs[1])
               /\ OnlyWaits(ActionEntries(2), 500)
               /\ <<legs[2].fromX, legs[2].fromY>> = <<195, 42>>
               /\ <<legs[2].x, legs[2].y>> = <<331, 16>>
               /\ Len(homeClick) = 12
               /\ \A k \in 1..10 : IsMoveOf(homeClick[k], legs[2])
               /\ IsButton(homeClick[11], TRUE)
               /\ IsButton(homeClick[12], FALSE)
               /\ OnlyWaits(ActionEntries(4), 1000)
        /\ <<currentX, currentY>> = <<331, 16>>

C6_Witness ==
    /\ pc = "idle"
    /\ plays = 1
    /\ actions = getHomeButtonRecording
    /\ Len(marks) = 4
    /\ emitted[Len(emitted) - 1].ms = 1000

MapDone == mapOut # NoMap

\* C7 as stated: the mapping returns (floor(x * w), floor(y * h)) of the
\* exact products and changes nothing of the controller.
C7_ExactFloor ==
    MapDone =>
        /\ mapOut.absX = ExactFloor(mapIn[1], screenWidth)
        /\ mapOut.absY = ExactFloor(mapIn[2], screenHeight)
        /\ <<currentX, currentY>> = <<startX, startY>>
        /\ emitted = <<>>

\* C7, amended: the mapping returns floor(x * w) or floor(x * w) + 1, and
\* floor(x * w) whenever x * w is more than 2^-9 below the next integer
\* (the product is rounded to single precision before it is truncated);
\* likewise for y and h; it changes nothing of the controller.
C7_FloorUpToFloatRounding ==
    MapDone =>
        LET fx == ExactFloor(mapIn[1], screenWidth)
            fy == ExactFloor(mapIn[2], screenHeight)
        IN  /\ mapOut.absX \in {fx, fx + 1}
            /\ mapOut.absY \in {fy, fy + 1}
            /\ FarBelowNextInt(mapIn[1], screenWidth) => mapOut.absX = fx
            /\ FarBelowNextInt(mapIn[2], screenHeight) => mapOut.absY = fy
            /\ <<currentX, currentY>> = <<startX, startY>>
            /\ emitted = <<>>

\* the mapping was applied to 0.85 (331.5 before truncation) with a moved
\* cursor
C7_Witness ==
    /\ MapDone
    /\ mapIn = <<F_0_85, F_0_02>>
    /\ mapOut = [absX |-> 331, absY |-> 16]
    /\ currentX = 195

IsLetter(c) == c \in 65..90 \/ c \in 97..122

\* C8: a letter and its other case have the same keycode, the codes of
\* consecutive letters are consecutive, and they start at the base 0x04.
C8_CaseInsensitive ==
    keyOut # <<>> =>
        LET c == keyIn[1]
            d == keyIn[2]
        IN  /\ (IsLetter(c) /\ IsLetter(d) /\ (d - c = 32 \/ c - d = 32)) =>
                keyOut[1] = keyOut[2]
            /\ (IsLetter(c) /\ IsLetter(d) /\ d = c + 1) => keyOut[2] = keyOut[1] + 1
            /\ c \in {65, 97} => keyOut[1] = 4

\* 'z' and 'Z' were translated
C8_Witness ==
    /\ keyIn = <<122, 90>>
    /\ keyOut = <<29, 29>>

C10_TenEqualSubSteps ==
    /\ \A n \in 1..Len(legs) :
        LET l == legs[n]
        IN  /\ l.first + 19 <= Len(emitted)
            /\ \A k \in 0..9 :
                /\ IsMoveOf(emitted[l.first + 2 * k], l)
                /\ emitted[l.first + 2 * k + 1].kind = "sleep"
                /\ emitted[l.first + 2 * k + 1].ms = 10
                /\ <<l.targetX - l.fromX, l.targetY - l.fromY>> # <<0, 0>> =>
                    <<emitted[l.first + 2 * k].dx, emitted[l.first + 2 * k].dy>>
                        # <<l.targetX - l.fromX, l.targetY - l.fromY>>
    /\ Cardinality({k \in 1..Len(emitted) : emitted[k].kind = "move"}) = 10 * Len(legs)

\* a leg to the left and up, whose deltas are not multiples of ten
C10_Witness ==
    \E n \in 1..Len(legs) :
        /\ legs[n].targetX - legs[n].fromX < 0
        /\ legs[n].targetY - legs[n].fromY < 0
        /\ TruncationLost(legs[n])
        /\ emitted[legs[n].first + 18].dx < 0

\* the value a receiver reads from a report byte: a signed 8-bit integer
AsInt8(b) == IF b >= 128 THEN b - 256 ELSE b

\* C11: every relative move emitted has dx and dy within -127..127, so the
\* report bytes (delta & 0xFF), read as signed bytes, are the deltas.
C11_DeltasFitInt8 ==
    \A k \in 1..Len(emitted) :
        emitted[k].kind = "move" =>
            /\ emitted[k].dx \in -127..127
            /\ emitted[k].dy \in -127..127
            /\ AsInt8(emitted[k].report[2]) = emitted[k].dx
            /\ AsInt8(emitted[k].report[3]) = emitted[k].dy

\* the longest leg both ways: from (390,844) back to (0,0) in steps of
\* (-39,-84), sent as the bytes 217 and 172
C11_Witness ==
    /\ <<startX, startY>> = <<390, 844>>
    /\ <<currentX, currentY>> = <<0, 0>>
    /\ \E k \in 1..Len(emitted) :
        /\ emitted[k].kind = "move"
        /\ <<emitted[k].dx, emitted[k].dy>> = <<-39, -84>>
        /\ emitted[k].report = <<0, 217, 172>>

\* the loop is about to dispatch an action of this type
AtAction(type) == pc = "loop" /\ idx <= Len(actions) /\ actions[idx].type = type

\* C12: a Wait action sleeps once, for exactly waitMs, emits no device
\* event and leaves the cursor where it was (the delay between actions
\* follows it as it follows every action).
C12_WaitOnlySleeps ==
    [][AtAction(WAIT) =>
        /\ Len(emitted') = Len(emitted) + 2
        /\ SubSeq(emitted', 1, Len(emitted)) = emitted
        /\ emitted'[Len(emitted) + 1].kind = "sleep"
        /\ emitted'[Len(emitted) + 1].ms = actions[idx].waitMs
        /\ emitted'[Len(emitted) + 2].kind = "sleep"
        /\ <<currentX', currentY'>> = <<currentX, currentY>>]_vars

\* a Wait of 500 ms has just been played with the cursor away from (0,0)
C12_Witness ==
    /\ Len(marks) >= 2
    /\ actions[Len(marks)].type = WAIT
    /\ actions[Len(marks)].waitMs = 500
    /\ currentX # 0
    /\ emitted[Len(emitted) - 1].ms = 500

\* the characters the translation has a keycode for: letters, digits,
\* space and newline
HasKeycode(c) == IsLetter(c) \/ c \in 48..57 \/ c = 32 \/ c = 10

\* C13: a character without a keycode is typed as key 0 like any other
\* character; the characters after it are typed too, and the recording is
\* played to its last action.
C13_UnmappedCharContinues ==
    /\ \A i \in Dispatched :
        actions[i].type = TYPE =>
            LET ev == DeviceEvents(ActionEntries(i))
                text == actions[i].text
            IN  /\ Len(ev) = 2 * Len(text)
                /\ \A k \in 1..Len(text) :
                    /\ ev[2 * k - 1].kind = "keydown"
                    /\ ev[2 * k].kind = "keyup"
                    /\ ~HasKeycode(text[k]) => ev[2 * k - 1].keycode = 0
                    /\ HasKeycode(text[k]) => ev[2 * k - 1].keycode # 0
    /\ (pc = "idle" /\ plays > 0) => Len(marks) = Len(actions)

\* "z?0" was typed to its end ('0' is key 39) and the action after it played
C13_Witness ==
    /\ pc = "idle"
    /\ Len(marks) = 2
    /\ actions[1].type = TYPE
    /\ actions[1].text = <<122, 63, 48>>
    /\ DeviceEvents(ActionEntries(1))[3].keycode = 0
    /\ DeviceEvents(ActionEntries(1))[5].keycode = 39
    /\ actions[2].type = CLICK

\* C14: between any two consecutive actions of a playback lies the 100 ms
\* delay: the entry emitted last before action i + 1 is dispatched is a
\* sleep of 100 ms that follows what action i itself emitted.
C14_DelayBetweenActions ==
    \A i \in Dispatched :
        i < Len(marks) =>
            /\ marks[i + 1] >= marks[i] + 2
            /\ emitted[marks[i + 1]].kind = "sleep"
            /\ emitted[marks[i + 1]].ms = 100

\* a Type action was dispatched after a Drag
C14_Witness ==
    /\ Len(marks) = 2
    /\ actions[1].type = DRAG
    /\ actions[2].type = TYPE
    /\ IsButton(emitted[marks[2] - 1], FALSE)
    /\ emitted[marks[2] + 1].kind = "keydown"

\* what action i itself emitted: its entries without the delay between
\* actions that closes its iteration
OwnEntries(i) == SubSeq(emitted, marks[i] + 1, SliceEnd(i) - 1)

\* the durations of the sleeps of a sequence of entries, in order
Delays(seq) ==
    LET sl == SelectSeq(seq, LAMBDA en : en.kind = "sleep")
    IN  [k \in 1..Len(sl) |-> sl[k].ms]

TenStepDelays == [k \in 1..10 |-> 10]

\* C15 as stated: the sleeps of a Click are the ten 10 ms delays of its
\* move and then the 50 ms hold, and button-down is the entry right after
\* the last sub-step.
C15_OnlyStepAndHoldDelays ==
    \A i \in Dispatched :
        actions[i].type = CLICK =>
            LET own == OwnEntries(i)
            IN  /\ Delays(own) = TenStepDelays \o <<50>>
                /\ Len(own) >= 21
                /\ IsButton(own[21], TRUE)

\* C15: the sleeps of a Click are the ten 10 ms delays of its move, then
\* one 100 ms delay before the press, then the 50 ms hold: button-down is
\* the entry after that 100 ms delay, and between button-down and button-up
\* lies exactly one sleep, of 50 ms.
C15_StepSettleHoldDelays ==
    \A i \in Dispatched :
        actions[i].type = CLICK =>
            LET own == OwnEntries(i)
            IN  /\ Delays(own) = TenStepDelays \o <<100, 50>>
                /\ Len(own) = 24
                /\ own[20].kind = "sleep" /\ own[20].ms = 10
                /\ own[21].kind = "sleep" /\ own[21].ms = 100
                /\ IsButton(own[22], TRUE)
                /\ own[23].kind = "sleep" /\ own[23].ms = 50
                /\ IsButton(own[24], FALSE)

\* a Click was dispatched after another action
C15_Witness ==
    \E i \in Dispatched :
        /\ i > 1
        /\ actions[i].type = CLICK
        /\ Len(OwnEntries(i)) = 24
        /\ IsButton(OwnEntries(i)[22], TRUE)

\* a controller at (x, y) that has emitted nothing
Fresh(x, y) == [currentX |-> x, currentY |-> y, out |-> <<>>, legs |-> <<>>]

CaseOf(e, action) ==
    CASE action.type = MOVE -> MoveCase(e, action)
      [] action.type = CLICK -> ClickCase(e, action)
      [] action.type = DRAG -> DragCase(e, action)
      [] action.type = WAIT -> WaitCase(e, action)
      [] action.type = TYPE -> TypeCase(e, action)

\* what one iteration of the loop for action does to controller e
Played(e, action) ==
    LET c == CaseOf(e, action)
    IN  [c EXCEPT !.out = InterActionDelay(c.out)]

\* The engine changes state only Idle -> Running and Running -> Idle.  A
\* playback, the first or a later one, starts at its first action from the
\* cursor the engine has, with nothing emitted; each of its steps is what
\* the next action of the recording does from the cursor reached; and it
\* ends once every action has been dispatched, leaving the cursor there.
Lifecycle ==
    /\ pc \in {"idle", "loop"}
    /\ pc' \in {"idle", "loop"}
    /\ pc = "idle" /\ pc' = "loop" =>
        /\ Controller' = Fresh(currentX, currentY)
        /\ idx' = 1
    /\ pc = "loop" /\ pc' = "loop" =>
        /\ idx <= Len(actions)
        /\ Controller' = Played(Controller, actions[idx])
        /\ idx' = idx + 1
        /\ actions' = actions
    /\ pc = "loop" /\ pc' = "idle" =>
        /\ idx = Len(actions) + 1
        /\ Controller' = Controller
    /\ pc = "idle" /\ pc' = "idle" => Controller' = Controller

\* C16: every playback, once started, comes back to Idle; the engine goes
\* Idle -> Running -> Idle and no other way; and every playback, the first
\* or a later one, starts from the cursor the engine was left with and does
\* step by step what its recording does from there.
C16_TerminatesAndReusable ==
    /\ (pc = "loop") ~> (pc = "idle")
    /\ [](DispatchEnabled => actions[idx].type \in {MOVE, CLICK, DRAG, WAIT, TYPE})
    /\ [][Lifecycle]_vars

\* a second playback, called with the cursor away from the origin, is over
C16_Witness ==
    /\ pc = "idle"
    /\ plays = 2
    /\ <<startX, startY>> # <<0, 0>>
    /\ idx = Len(actions) + 1
    /\ Len(legs) >= 1
    /\ <<currentX, currentY>> # <<startX, startY>>

\* the kinds of the device events of a sequence of entries, in order
Kinds(seq) ==
    LET ev == DeviceEvents(seq)
    IN  [k \in 1..Len(ev) |-> ev[k].kind]

TenMoves == [k \in 1..10 |-> "move"]

\* the kinds of the device events one dispatch of action emits
KindsFor(action) ==
    CASE action.type = MOVE -> TenMoves
      [] action.type = CLICK -> TenMoves \o <<"button", "button">>
      [] action.type = DRAG -> TenMoves \o <<"button">> \o TenMoves \o <<"button">>
      [] action.type = WAIT -> <<>>
      [] action.type = TYPE ->
            [k \in 1..(2 * Len(action.text)) |-> IF k % 2 = 1 THEN "keydown" ELSE "keyup"]

\* C17: the log of a playback is the concatenation, in the order of the
\* recording, of one slice per dispatched action: the slices start at
\* strictly increasing positions, action i + 1 starts where action i ended,
\* as many actions have been dispatched as the loop has passed, and the
\* slice of action i holds the events of exactly one dispatch of its kind
\* (for a Wait: no event and one sleep of its duration).
C17_ProgramOrder ==
    /\ Len(marks) = idx - 1
    /\ Len(marks) <= Len(actions)
    /\ marks # <<>> => marks[1] = 0
    /\ \A i \in Dispatched :
        /\ marks[i] < SliceEnd(i)
        /\ SliceEnd(i) <= Len(emitted)
        /\ Kinds(ActionEntries(i)) = KindsFor(actions[i])
        /\ actions[i].type = WAIT => Delays(OwnEntries(i)) = <<actions[i].waitMs>>
    /\ Kinds(emitted) \in Seq({"move", "button", "keydown", "keyup"})
    /\ \A i \in Dispatched : \A j \in Dispatched :
        i < j => SliceEnd(i) <= marks[j]
    /\ marks # <<>> => SliceEnd(Len(marks)) = Len(emitted)

\* a Move was dispatched after a Type, and the loop is over
C17_Witness ==
    /\ Len(marks) = 2
    /\ idx = 3
    /\ actions[1].type = TYPE
    /\ actions[2].type = MOVE
    /\ emitted[marks[2] + 1].kind = "move"
    /\ emitted[marks[1] + 1].kind = "keydown"

\* the position a receiver that started at (0, 0) has after the first n
\* entries: the sum of the relative deltas of the move reports among them
RECURSIVE ReceiverAt(_, _)
ReceiverAt(seq, n) ==
    IF n = 0 THEN <<0, 0>>
    ELSE LET r == ReceiverAt(seq, n - 1)
         IN  IF seq[n].kind = "move"
             THEN <<r[1] + seq[n].dx, r[2] + seq[n].dy>>
             ELSE r

Abs(v) == IF v < 0 THEN -v ELSE v

\* C18 as stated, for the first playback of a controller (cursor and
\* receiver both start at (0, 0)): after every dispatched action the sum
\* of the emitted deltas is within less than 10 units of the cursor on
\* each axis, however many legs were played.
C18_ResidualNeverAccumulates ==
    plays = 1 =>
        LET r == ReceiverAt(emitted, Len(emitted))
        IN  /\ Abs(currentX - r[1]) < 10
            /\ Abs(currentY - r[2]) < 10

\* the left-button bit of the first byte of a report
LeftButtonBit(report) == report[1] % 2

\* C19 as stated: in the events of a Drag, the button-down report and every
\* report after it and before the button-up report, the ten move reports
\* of the destination leg among them, have the left-button bit set.
C19_ButtonHeldInDragReports ==
    \A i \in Dispatched :
        actions[i].type = DRAG =>
            LET ev == DeviceEvents(ActionEntries(i))
            IN  /\ Len(ev) = 22
                /\ IsButton(ev[11], TRUE)
                /\ IsButton(ev[22], FALSE)
                /\ \A k \in 11..21 :
                    Len(ev[k].report) = 3 /\ LeftButtonBit(ev[k].report) = 1

\* the button events of a sequence of entries, in order
ButtonEvents(seq) == SelectSeq(seq, LAMBDA en : en.kind = "button")

\* C20: the button events of a playback alternate, button-down first;
\* every one lies in the slice of a Click or a Drag, which holds one
\* button-down and then one button-up; so after every dispatched action,
\* and when the recording is over, the last button event (if any) is a
\* button-up.
C20_ButtonsBalanced ==
    LET bt == ButtonEvents(emitted)
    IN  /\ \A k \in 1..Len(bt) : bt[k].pressed = (k % 2 = 1)
        /\ Len(bt) % 2 = 0
        /\ bt # <<>> => IsButton(bt[Len(bt)], FALSE)
        /\ \A i \in Dispatched :
            LET own == ButtonEvents(ActionEntries(i))
            IN  IF actions[i].type \in {CLICK, DRAG}
                THEN /\ Len(own) = 2
                     /\ IsButton(own[1], TRUE)
                     /\ IsButton(own[2], FALSE)
                ELSE own = <<>>
        /\ Len(bt) = 2 * Cardinality({i \in Dispatched : actions[i].type \in {CLICK, DRAG}})

\* a recording of a Click and then a Drag is over
C20_Witness ==
    /\ pc = "idle"
    /\ Len(marks) = 2
    /\ actions[1].type = CLICK
    /\ actions[2].type = DRAG
    /\ Len(ButtonEvents(emitted)) = 4

====
